---------------------------- MODULE Spec2Model ----------------------------
(***************************************************************************)
(* A model of the bit cursor (src/src/io/bit_cursor.rs) and of the         *)
(* consumable bit buffers (src/src/buf/bit_buf_impls.rs).                  *)
(*                                                                         *)
(* A bit-level view is a sequence over {0, 1}; index i of the view (from   *)
(* 0, as in the code) is element i + 1 of the sequence.  The 64-bit        *)
(* integers of the code (u64, i64, and usize on a 64-bit target) are       *)
(* modelled with PosBits bits: the arithmetic is the code's, the width is  *)
(* the scale of the model.  A panic ends the run: no operation is enabled  *)
(* once a call has panicked.                                               *)
(***************************************************************************)
EXTENDS Integers, Sequences, FiniteSets, TLC

VARIABLES
    inner,   \* BitCursor.inner, as the bit view borrow_bits() gives
    pos,     \* BitCursor.pos
    op,      \* the last call made
    arg,     \* its argument
    ret,     \* what it returned: Ok(n), Err(kind) or a panic
    out,     \* the caller's buffer after the call, or the halves of a split
    pre,     \* the cursor (or the buffer) before the call
    hist,    \* the calls made before the last one (kept by the scenarios only)
    bitbuf,  \* a consumable buffer: a Bits or a BitsMut
    halves   \* the two views a split_mut() handed out, while they are borrowed

vars == <<inner, pos, op, arg, ret, out, pre, hist, bitbuf, halves>>

-----------------------------------------------------------------------------
(* Bounds of the model *)

PosBits == 5
MaxBits == 10
SeedBits == 3
MaxDest == 3
MaxBuf == 2
MaxMutBits == 8
MaxSplitBits == 4
MaxSource == 2

(* Program constants *)

BitsPerByte == 8

-----------------------------------------------------------------------------
(* Integers of the code, PosBits wide *)

Pow2(n) == 2 ^ n

U64Max == Pow2(PosBits) - 1
I64Min == 0 - Pow2(PosBits - 1)
I64Max == Pow2(PosBits - 1) - 1

U64 == 0 .. U64Max
I64 == I64Min .. I64Max

Min(a, b) == IF a <= b THEN a ELSE b

\* two's complement wrap of a mathematical integer into i64
WrapI64(x) == ((x - I64Min) % Pow2(PosBits)) + I64Min

\* wrap of a mathematical integer into u64
WrapU64(x) == x % Pow2(PosBits)

None == [some |-> FALSE, val |-> 0]
Some(x) == [some |-> TRUE, val |-> x]

\* u64::checked_add_signed
checked_add_signed(base, offset) ==
    LET r == base + offset
    IN  IF r < 0 \/ r > U64Max THEN None ELSE Some(r)

-----------------------------------------------------------------------------
(* Results of a call *)

Ok(n) == [kind |-> "Ok", val |-> n, err |-> "none"]
Err(e) == [kind |-> "Err", val |-> 0, err |-> e]
Panic(m) == [kind |-> "Panic", val |-> 0, err |-> m]

-----------------------------------------------------------------------------
(* Bit views *)

Bit == {0, 1}

\* bits[a..b] of the code: the bits at indices a, ..., b - 1
Slice(bits, a, b) == SubSeq(bits, a + 1, b)

\* a storage content: bit i is bit (i mod SeedBits) of seed
Pattern(seed, len) ==
    [i \in 1 .. len |-> (seed \div Pow2((i - 1) % SeedBits)) % 2]

Storages == {Pattern(seed, len) : seed \in 0 .. Pow2(SeedBits) - 1, len \in 0 .. MaxBits}

BitSeqs(maxlen) == UNION {[1 .. n -> Bit] : n \in 0 .. maxlen}

-----------------------------------------------------------------------------
(* The cursor *)

Cursor == [inner |-> inner, pos |-> pos]

\* the argument of a call: a seek origin with its offset (or a count), and
\* the caller's buffer as it is handed in
Arg(whence, n, data) == [whence |-> whence, n |-> n, data |-> data]

NoArg == Arg("none", 0, <<>>)

SeekFrom(whence, n) == Arg(whence, n, <<>>)

SeekArgs ==
    {SeekFrom("Start", n) : n \in U64}
        \cup {SeekFrom("End", n) : n \in I64}
        \cup {SeekFrom("Current", n) : n \in I64}

\* BitCursor::new
New(storage) == [inner |-> storage, pos |-> 0]

\* BitSlice::split_at, BitSlice::split_at_mut: None stands for the panic on
\* mid > len
split_at(bits, mid) ==
    IF mid > Len(bits)
    THEN None
    ELSE Some(<<Slice(bits, 0, mid), Slice(bits, mid, Len(bits))>>)

\* split at the byte the position lies in: not what the code does
split_at_byte(c) == split_at(c.inner, (c.pos \div BitsPerByte) * BitsPerByte)

\* BitCursor::split
split(c) == split_at(c.inner, c.pos)

\* bit_seek with a wrapping sum: not what the code does
bit_seek_wrapping(c, from) ==
    IF from.whence = "Start"
    THEN [pos |-> from.n, ret |-> Ok(from.n)]
    ELSE LET base_pos == IF from.whence = "End" THEN Len(c.inner) ELSE c.pos
             n == WrapU64(base_pos + from.n)
         IN  [pos |-> n, ret |-> Ok(n)]

\* bit_seek that stops at the end of the storage: not what the code does
bit_seek_clamped(c, from) ==
    IF from.whence = "Start"
    THEN [pos |-> Min(from.n, Len(c.inner)), ret |-> Ok(Min(from.n, Len(c.inner)))]
    ELSE LET base_pos == IF from.whence = "End" THEN Len(c.inner) ELSE c.pos
             r == checked_add_signed(base_pos, from.n)
         IN  IF r.some
             THEN [pos |-> Min(r.val, Len(c.inner)), ret |-> Ok(Min(r.val, Len(c.inner)))]
             ELSE [pos |-> c.pos, ret |-> Err("InvalidInput")]

\* BitCursor::bit_seek: the new position and the result
bit_seek(c, from) ==
    IF from.whence = "Start"
    THEN [pos |-> from.n, ret |-> Ok(from.n)]
    ELSE LET base_pos == IF from.whence = "End" THEN Len(c.inner) ELSE c.pos
             r == checked_add_signed(base_pos, from.n)
         IN  IF r.some
             THEN [pos |-> r.val, ret |-> Ok(r.val)]
             ELSE [pos |-> c.pos, ret |-> Err("InvalidInput")]

\* n * 8 of Seek::seek: the products the build can give.  An overflowing
\* multiplication panics with overflow checks on and wraps with them off.
MulByEight(whence, n) ==
    LET p == n * BitsPerByte
        fits == IF whence = "Start" THEN p <= U64Max ELSE p >= I64Min /\ p <= I64Max
        wrapped == IF whence = "Start" THEN WrapU64(p) ELSE WrapI64(p)
    IN  IF fits
        THEN {[panic |-> FALSE, n |-> p]}
        ELSE {[panic |-> TRUE, n |-> 0], [panic |-> FALSE, n |-> wrapped]}

\* seek that hands the offset on as it is: not what the code does
seek_unscaled(c, from) == {bit_seek(c, SeekFrom(from.whence, from.n))}

\* Seek::seek: the outcomes, one per product
seek(c, from) ==
    {IF m.panic
     THEN [pos |-> c.pos, ret |-> Panic("attempt to multiply with overflow")]
     ELSE bit_seek(c, SeekFrom(from.whence, m.n)) : m \in MulByEight(from.whence, from.n)}

-----------------------------------------------------------------------------
(* Reading and writing *)

\* the byte of an 8-bit (or shorter) chunk: bit j of the chunk sets bit 7 - j
RECURSIVE PackFrom(_, _)
PackFrom(chunk, j) ==
    IF j >= Len(chunk)
    THEN 0
    ELSE (IF chunk[j + 1] = 1 THEN Pow2(7 - j) ELSE 0) + PackFrom(chunk, j + 1)

\* the byte packed least significant bit first: not what the code does
RECURSIVE PackLsbFrom(_, _)
PackLsbFrom(chunk, j) ==
    IF j >= Len(chunk)
    THEN 0
    ELSE (IF chunk[j + 1] = 1 THEN Pow2(j) ELSE 0) + PackLsbFrom(chunk, j + 1)

PackByteLsbFirst(chunk) == PackLsbFrom(chunk, 0)

PackByte(chunk) == PackFrom(chunk, 0)

\* BitSlice::chunks(8): chunk i of the view
Chunk(bits, i) ==
    Slice(bits, BitsPerByte * i, Min(BitsPerByte * (i + 1), Len(bits)))

NumChunks(bits) == (Len(bits) + BitsPerByte - 1) \div BitsPerByte

\* Read::read: the new position, the result and the caller's buffer.  The
\* sum self.pos + 8 * bytes_read is at most the bit length of the storage
\* plus 7, which a storage of MaxBits bits keeps within U64Max.
read(c, buf) ==
    IF c.pos > Len(c.inner)
    THEN [pos |-> c.pos, ret |-> Panic("range start index out of range"), data |-> buf]
    ELSE LET remaining == Slice(c.inner, c.pos, Len(c.inner))
             bytes_read == Min(NumChunks(remaining), Len(buf))
         IN  [pos |-> c.pos + bytes_read * BitsPerByte,
              ret |-> Ok(bytes_read),
              data |-> [i \in 1 .. Len(buf) |->
                           IF i <= bytes_read
                           THEN PackByte(Chunk(remaining, i - 1))
                           ELSE buf[i]]]

\* BitRead for &BitSlice: the count and the destination
BitSliceReadBits(src, dest) ==
    LET n == Min(Len(src), Len(dest))
    IN  [n |-> n,
         data |-> [i \in 1 .. Len(dest) |-> IF i <= n THEN src[i] ELSE dest[i]]]

\* read_bits that leaves the position where it was: not what the code does
read_bits_no_advance(c, dest) ==
    LET s == split(c)
    IN  IF ~s.some
        THEN [pos |-> c.pos, ret |-> Panic("mid > len"), data |-> dest]
        ELSE LET r == BitSliceReadBits(s.val[2], dest)
             IN  [pos |-> c.pos, ret |-> Ok(r.n), data |-> r.data]

\* BitRead::read_bits
read_bits(c, dest) ==
    LET s == split(c)
    IN  IF ~s.some
        THEN [pos |-> c.pos, ret |-> Panic("mid > len"), data |-> dest]
        ELSE LET r == BitSliceReadBits(s.val[2], dest)
             IN  [pos |-> c.pos + r.n, ret |-> Ok(r.n), data |-> r.data]

\* the bits of a byte, most significant first
ByteBits(b) == [j \in 1 .. BitsPerByte |-> (b \div Pow2(BitsPerByte - j)) % 2]

\* A mutable view is a window [start, start + len) of the storage it borrows
View(start, len) == [start |-> start, len |-> len]

\* the storage with the bits of window v replaced by bits
Store(storage, v, bits) ==
    [i \in 1 .. Len(storage) |->
        IF i > v.start /\ i <= v.start + Len(bits) THEN bits[i - v.start] ELSE storage[i]]

\* split_mut that starts the second half at the byte the position lies in:
\* not what the code does
split_mut_at_byte(c) ==
    IF c.pos > Len(c.inner)
    THEN None
    ELSE LET b == (c.pos \div BitsPerByte) * BitsPerByte
         IN  Some([left |-> View(0, c.pos), right |-> View(b, Len(c.inner) - b)])

\* BitCursor::split_mut: the windows of the two halves
split_mut(c) ==
    IF c.pos > Len(c.inner)
    THEN None
    ELSE Some([left |-> View(0, c.pos), right |-> View(c.pos, Len(c.inner) - c.pos)])

\* Write for &mut BitSlice: whole bytes only, each stored most significant
\* bit first; the count, the storage and the view after the write
BitSliceWrite(storage, v, buf) ==
    LET n == Min(v.len \div BitsPerByte, Len(buf))
        bits == [i \in 1 .. n * BitsPerByte |->
                    ByteBits(buf[((i - 1) \div BitsPerByte) + 1])[((i - 1) % BitsPerByte) + 1]]
    IN  [n |-> n,
         inner |-> Store(storage, v, bits),
         view |-> View(v.start + n * BitsPerByte, v.len - n * BitsPerByte)]

\* BitWrite for &mut BitSlice: the count, the storage and the view after
\* the write
BitSliceWriteBits(storage, v, source) ==
    LET n == Min(v.len, Len(source))
    IN  [n |-> n,
         inner |-> Store(storage, v, Slice(source, 0, n)),
         view |-> View(v.start + n, v.len - n)]

\* Write::write: the new position, the result and the storage
write(c, buf) ==
    LET s == split_mut(c)
    IN  IF ~s.some
        THEN [pos |-> c.pos, ret |-> Panic("mid > len"), inner |-> c.inner]
        ELSE LET r == BitSliceWrite(c.inner, s.val.right, buf)
             IN  [pos |-> c.pos + r.n * BitsPerByte, ret |-> Ok(r.n), inner |-> r.inner]

\* write_bits into the first half of the split: not what the code does
write_bits_before(c, source) ==
    LET s == split_mut(c)
    IN  IF ~s.some
        THEN [pos |-> c.pos, ret |-> Panic("mid > len"), inner |-> c.inner]
        ELSE LET r == BitSliceWriteBits(c.inner, s.val.left, source)
                 n == Min(Len(source), Len(c.inner) - c.pos)
             IN  [pos |-> c.pos + n, ret |-> Ok(n), inner |-> r.inner]

\* write_bits that counts the whole source as written: not what the code does
write_bits_whole_source(c, source) ==
    LET s == split_mut(c)
    IN  IF ~s.some
        THEN [pos |-> c.pos, ret |-> Panic("mid > len"), inner |-> c.inner]
        ELSE LET r == BitSliceWriteBits(c.inner, s.val.right, source)
             IN  [pos |-> c.pos + Len(source), ret |-> Ok(Len(source)), inner |-> r.inner]

\* BitWrite::write_bits
write_bits(c, source) ==
    LET s == split_mut(c)
    IN  IF ~s.some
        THEN [pos |-> c.pos, ret |-> Panic("mid > len"), inner |-> c.inner]
        ELSE LET r == BitSliceWriteBits(c.inner, s.val.right, source)
             IN  [pos |-> c.pos + r.n, ret |-> Ok(r.n), inner |-> r.inner]

-----------------------------------------------------------------------------
(* The consumable buffers *)

BitBuf(kind, storage, start, len) ==
    [kind |-> kind, inner |-> storage, bit_start |-> start, bit_len |-> len]

\* Bits::inc_start
inc_start(b, count) ==
    [b EXCEPT !.bit_start = b.bit_start + count, !.bit_len = b.bit_len - count]

\* BitsMut::advance_mut
advance_mut(b, count) ==
    [b EXCEPT !.bit_start = b.bit_start + count, !.bit_len = b.bit_len - count]

\* BitsMut::len
len(b) == b.bit_len

\* BitBuf::remaining, for Bits and for BitsMut
remaining(b) == IF b.kind = "Bits" THEN b.bit_len ELSE len(b)

\* chunk that takes the window's length for its end: not what the code does
chunk_to_len(b) ==
    IF b.bit_len > Len(b.inner) \/ b.bit_start > b.bit_len
    THEN None
    ELSE Some(Slice(b.inner, b.bit_start, b.bit_len))

\* BitBuf::chunk, for Bits and for BitsMut: None stands for the panic of a
\* range that is not in the storage
chunk(b) ==
    IF b.bit_start + b.bit_len > Len(b.inner)
    THEN None
    ELSE Some(Slice(b.inner, b.bit_start, b.bit_start + b.bit_len))

\* advance that takes what is left when asked for more: not what the code does
advance_clamped(b, count) ==
    LET n == Min(count, remaining(b))
    IN  [buf |-> IF b.kind = "Bits" THEN inc_start(b, n) ELSE advance_mut(b, n),
         ret |-> Ok(0)]

\* advance without the assertion: not what the code does
advance_unchecked(b, count) ==
    [buf |-> IF b.kind = "Bits" THEN inc_start(b, count) ELSE advance_mut(b, count),
     ret |-> Ok(0)]

\* BitBuf::advance, for Bits and for BitsMut: the buffer and the result
advance(b, count) ==
    IF ~(count <= remaining(b))
    THEN [buf |-> b, ret |-> Panic("advance past end of Bits")]
    ELSE [buf |-> IF b.kind = "Bits" THEN inc_start(b, count) ELSE advance_mut(b, count),
          ret |-> Ok(0)]

-----------------------------------------------------------------------------
(* Calls *)

Running == ret.kind # "Panic"

\* the caller holds no result of an earlier call
Idle == op \in {"new", "idle"}

NoOut == <<>>

NoPre == [inner |-> <<>>, pos |-> 0]

\* a call on the cursor: what it was, what it returned and what it left
Call(o, a, r, newInner, newPos, newOut) ==
    /\ Running
    /\ op' = o
    /\ arg' = a
    /\ ret' = r
    /\ inner' = newInner
    /\ pos' = newPos
    /\ out' = newOut
    /\ pre' = Cursor
    /\ UNCHANGED <<bitbuf, halves>>

\* the caller drops the result of the last call and the buffer it handed in
DropResult ==
    /\ Running
    /\ ~Idle
    /\ op' = "idle"
    /\ arg' = NoArg
    /\ ret' = Ok(0)
    /\ out' = NoOut
    /\ pre' = NoPre
    /\ UNCHANGED <<inner, pos, hist, bitbuf, halves>>

\* the buffers a caller hands in
ByteVals == {0, 165, 255}

ByteBufs == UNION {[1 .. n -> ByteVals] : n \in 0 .. MaxBuf}

BitBufs == BitSeqs(MaxDest)

\* BitCursor::set_position
SetPosition(positions) ==
    \E p \in positions :
        Call("set_position", SeekFrom("Start", p), Ok(0), inner, p, NoOut)

BitSeek ==
    \E from \in SeekArgs :
        LET r == bit_seek(Cursor, from)
        IN  Call("bit_seek", from, r.ret, inner, r.pos, NoOut)

Seek ==
    \E from \in SeekArgs :
        \E r \in seek(Cursor, from) :
            Call("seek", from, r.ret, inner, r.pos, NoOut)

Split ==
    LET s == split(Cursor)
    IN  Call("split", NoArg,
             IF s.some THEN Ok(0) ELSE Panic("mid > len"),
             inner, pos,
             IF s.some THEN s.val ELSE NoOut)

Read ==
    \E buf \in ByteBufs :
        LET r == read(Cursor, buf)
        IN  Call("read", Arg("none", 0, buf), r.ret, inner, r.pos, r.data)

ReadBits ==
    \E dest \in BitBufs :
        LET r == read_bits(Cursor, dest)
        IN  Call("read_bits", Arg("none", 0, dest), r.ret, inner, r.pos, r.data)

Write ==
    \E buf \in ByteBufs :
        LET r == write(Cursor, buf)
        IN  Call("write", Arg("none", 0, buf), r.ret, r.inner, r.pos, NoOut)

WriteBits ==
    \E source \in BitBufs :
        LET r == write_bits(Cursor, source)
        IN  Call("write_bits", Arg("none", 0, source), r.ret, r.inner, r.pos, NoOut)

\* BitCursor::split_mut, by a caller that keeps the two halves
SplitMut ==
    LET s == split_mut(Cursor)
    IN  /\ Running
        /\ ~halves.live
        /\ op' = "split_mut"
        /\ arg' = NoArg
        /\ ret' = IF s.some THEN Ok(0) ELSE Panic("mid > len")
        /\ out' = NoOut
        /\ pre' = Cursor
        /\ halves' = IF s.some
                     THEN [live |-> TRUE, left |-> s.val.left, right |-> s.val.right,
                           at |-> pos, inner0 |-> inner, wl |-> <<>>, wr |-> <<>>]
                     ELSE halves
        /\ UNCHANGED <<inner, pos, hist, bitbuf>>

\* the sources the holder of a half writes
Sources == BitSeqs(MaxSource) \ {<<>>}

\* left.write_bits(source), by the holder of the first half, who writes
\* until the half is full
LeftWriteBits ==
    \E source \in Sources :
        LET r == BitSliceWriteBits(inner, halves.left, source)
        IN  /\ Running
            /\ halves.live
            /\ halves.left.len > 0
            /\ op' = "left.write_bits"
            /\ arg' = Arg("none", 0, source)
            /\ ret' = Ok(r.n)
            /\ out' = NoOut
            /\ pre' = Cursor
            /\ inner' = r.inner
            /\ halves' = [halves EXCEPT !.left = r.view, !.wl = Append(@, source)]
            /\ UNCHANGED <<pos, hist, bitbuf>>

\* right.write_bits(source), by the holder of the second half
RightWriteBits ==
    \E source \in Sources :
        LET r == BitSliceWriteBits(inner, halves.right, source)
        IN  /\ Running
            /\ halves.live
            /\ halves.right.len > 0
            /\ op' = "right.write_bits"
            /\ arg' = Arg("none", 0, source)
            /\ ret' = Ok(r.n)
            /\ out' = NoOut
            /\ pre' = Cursor
            /\ inner' = r.inner
            /\ halves' = [halves EXCEPT !.right = r.view, !.wr = Append(@, source)]
            /\ UNCHANGED <<pos, hist, bitbuf>>

\* BitBuf::advance on the buffer
Advance ==
    \E count \in 0 .. MaxBits + 1 :
        LET r == advance(bitbuf, count)
        IN  /\ Running
            /\ op' = "advance"
            /\ arg' = Arg("none", count, <<>>)
            /\ ret' = r.ret
            /\ out' = NoOut
            /\ pre' = bitbuf
            /\ bitbuf' = r.buf
            /\ UNCHANGED <<inner, pos, hist, halves>>

NoBitBuf == [kind |-> "none", inner |-> <<>>, bit_start |-> 0, bit_len |-> 0]

NoHalves ==
    [live |-> FALSE, left |-> View(0, 0), right |-> View(0, 0),
     at |-> 0, inner0 |-> <<>>, wl |-> <<>>, wr |-> <<>>]

InitCursor(storages) ==
    /\ inner \in storages
    /\ pos = New(inner).pos
    /\ op = "new"
    /\ arg = NoArg
    /\ ret = Ok(0)
    /\ out = NoOut
    /\ pre = NoPre
    /\ hist = <<>>
    /\ bitbuf = NoBitBuf
    /\ halves = NoHalves

-----------------------------------------------------------------------------
(* A cursor over a storage that gives a bit view (T: BorrowBits): seeking, *)
(* reading and splitting, in any order                                     *)

\* a call made by a caller that holds no earlier result
Once(A) == Idle /\ A /\ UNCHANGED hist

Init == InitCursor(Storages)

Next ==
    \/ Once(SetPosition(U64))
    \/ Once(BitSeek)
    \/ Once(Seek)
    \/ Once(Split)
    \/ Once(Read)
    \/ Once(ReadBits)
    \/ DropResult

Spec == Init /\ [][Next]_vars

(* A cursor over a storage that gives a mutable bit view (T: BorrowBitsMut): *)
(* writing and reading, in any order                                         *)

MutStorages == BitSeqs(MaxMutBits)

InitMut == InitCursor(MutStorages)

NextMut ==
    \/ Once(SetPosition(0 .. Len(inner) + 1))
    \/ Once(Write)
    \/ Once(WriteBits)
    \/ Once(Read)
    \/ Once(ReadBits)
    \/ DropResult

SpecMut == InitMut /\ [][NextMut]_vars

(* The same cursor, moved by its reads and writes only *)

NextIO ==
    \/ Once(Read)
    \/ Once(ReadBits)
    \/ Once(Write)
    \/ Once(WriteBits)
    \/ DropResult

SpecIO == InitMut /\ [][NextIO]_vars

(* Two byte seeks in a row on a new cursor: the second sees the first in hist *)

TwoSeeks ==
    /\ hist = <<>>
    /\ Seek
    /\ hist' = IF op = "new" THEN <<>> ELSE <<[op |-> op, arg |-> arg, ret |-> ret]>>

ZeroStorages == {Pattern(0, n) : n \in 0 .. MaxBits}

InitSeekSeq == InitCursor(ZeroStorages)

SpecSeekSeq == InitSeekSeq /\ [][TwoSeeks]_vars

(* The write and read of test_alignment_reads_writes, at any offset within *)
(* the first byte, with any source, over any storage: set_position(o);      *)
(* write_bits(s); set_position(o); read_bits(dest), dest as long as s.      *)
(* hist holds the calls before the last one.                                *)

LastCall == [op |-> op, arg |-> arg, ret |-> ret]

Then(A) == A /\ hist' = IF op = "new" THEN <<>> ELSE Append(hist, LastCall)

RoundTrip ==
    \/ op = "new" /\ Then(SetPosition(0 .. BitsPerByte - 1))
    \/ op = "set_position" /\ Len(hist) = 0 /\ Then(WriteBits)
    \/ op = "write_bits" /\ Then(SetPosition({hist[1].arg.n}))
    \/ /\ op = "set_position"
       /\ Len(hist) = 2
       /\ Then(ReadBits)
       /\ Len(arg'.data) = Len(hist[2].arg.data)

SpecRoundTrip == Init /\ [][RoundTrip]_vars

(* A split_mut() whose two halves are written through in any order *)

\* storages of zeros, of ones, and of both
SplitStorages ==
    {Pattern(seed, n) : seed \in {0, 2, Pow2(SeedBits) - 1}, n \in 0 .. MaxSplitBits}

InitSplitMut == InitCursor(SplitStorages)

NextSplitMut ==
    \/ ~halves.live /\ op = "new" /\ SetPosition(0 .. Len(inner) + 1) /\ UNCHANGED hist
    \/ SplitMut
    \/ LeftWriteBits
    \/ RightWriteBits

SpecSplitMut == InitSplitMut /\ [][NextSplitMut]_vars

(* A Bits or a BitsMut made over a storage, and advanced *)

InitBuf ==
    /\ inner = <<>>
    /\ pos = 0
    /\ op = "new"
    /\ arg = NoArg
    /\ ret = Ok(0)
    /\ out = NoOut
    /\ pre = NoBitBuf
    /\ hist = <<>>
    /\ bitbuf \in {BitBuf(kind, storage, 0, Len(storage)) :
                      kind \in {"Bits", "BitsMut"}, storage \in Storages}
    /\ halves = NoHalves

SpecBuf == InitBuf /\ [][Advance]_vars

-----------------------------------------------------------------------------
(* The claims.  In each, pre is the cursor before the last call, arg what   *)
(* the call was given and ret, out, inner and pos what it left.             *)

PreLen == Len(pre.inner)

\* C1: bit_seek(Current(n)) and bit_seek(End(n)) fail with InvalidInput
\* whenever base + n (base the position, resp. the bit length of the
\* storage) is negative or above the largest u64, and the position is then
\* what it was before the call.
C1_InvalidSeekFails ==
    (op = "bit_seek" /\ arg.whence \in {"Current", "End"}) =>
        LET base == IF arg.whence = "Current" THEN pre.pos ELSE PreLen
        IN  (base + arg.n < 0 \/ base + arg.n > U64Max) =>
                /\ ret = Err("InvalidInput")
                /\ pos = pre.pos

\* a seek from the end to before the start, made away from the end
C1_Witness ==
    /\ op = "bit_seek"
    /\ arg.whence = "End"
    /\ PreLen + arg.n < 0
    /\ pre.pos # PreLen
    /\ pre.pos > 0
    /\ ret.kind = "Err"

\* C2: with 0 <= position <= bit length, split() gives (before, after) with
\* position bits in before, the rest in after, before followed by after the
\* whole view, and changes neither the storage nor the position.
C2_SplitPartition ==
    (op = "split" /\ pre.pos <= PreLen) =>
        /\ ret.kind = "Ok"
        /\ Len(out) = 2
        /\ Len(out[1]) = pre.pos
        /\ Len(out[2]) = PreLen - pre.pos
        /\ out[1] \o out[2] = pre.inner
        /\ \A i \in 1 .. pre.pos : out[1][i] = pre.inner[i]
        /\ inner = pre.inner
        /\ pos = pre.pos

\* a split strictly inside a byte of a storage that holds both bit values
C2_Witness ==
    /\ op = "split"
    /\ ret.kind = "Ok"
    /\ pre.pos > BitsPerByte
    /\ pre.pos < PreLen
    /\ \E i, j \in 1 .. PreLen : pre.inner[i] # pre.inner[j]

\* C9: read_bits(dest) at position p <= L copies k = min(len(dest), L - p)
\* bits: dest[0..k) is storage[p..p+k), the rest of dest is as it was, the
\* call returns k, the position is p + k and the storage is unchanged; at
\* p = L it returns 0 and leaves the position at L.
C9_ReadBits ==
    (op = "read_bits" /\ pre.pos <= PreLen) =>
        LET k == Min(Len(arg.data), PreLen - pre.pos)
        IN  /\ ret = Ok(k)
            /\ pos = pre.pos + k
            /\ inner = pre.inner
            /\ Len(out) = Len(arg.data)
            /\ \A i \in 1 .. Len(out) :
                   out[i] = IF i <= k THEN pre.inner[pre.pos + i] ELSE arg.data[i]
            /\ (pre.pos = PreLen => ret = Ok(0) /\ pos = PreLen)

\* a read of fewer bits than the destination holds, which changes it
C9_Witness ==
    /\ op = "read_bits"
    /\ ret.kind = "Ok"
    /\ ret.val > 0
    /\ ret.val < Len(arg.data)
    /\ pre.pos > 0
    /\ out # arg.data
    /\ arg.data[Len(arg.data)] = 1

\* the 8-bit group of the storage that starts at bit index start, as a byte:
\* the first bit is bit 7, a bit beyond the end of the storage counts 0
RECURSIVE GroupFrom(_, _, _)
GroupFrom(bits, start, j) ==
    IF j = BitsPerByte
    THEN 0
    ELSE (IF start + j < Len(bits) THEN bits[start + j + 1] ELSE 0) * Pow2(BitsPerByte - 1 - j)
             + GroupFrom(bits, start, j + 1)

GroupByte(bits, start) == GroupFrom(bits, start, 0)

CeilDiv(a, b) == (a + b - 1) \div b

\* C10: read(buf) at position p <= L returns k = min(len(buf),
\* ceil((L - p) / 8)); buf[i] for i < k is the group of storage bits from
\* p + 8i, most significant bit first and zero beyond L; the rest of buf is
\* untouched; the position advances by 8 * k.
C10_ReadBytes ==
    (op = "read" /\ pre.pos <= PreLen) =>
        LET k == Min(Len(arg.data), CeilDiv(PreLen - pre.pos, BitsPerByte))
        IN  /\ ret = Ok(k)
            /\ pos = pre.pos + BitsPerByte * k
            /\ inner = pre.inner
            /\ Len(out) = Len(arg.data)
            /\ \A i \in 1 .. Len(out) :
                   out[i] = IF i <= k
                            THEN GroupByte(pre.inner, pre.pos + BitsPerByte * (i - 1))
                            ELSE arg.data[i]

\* a read of two bytes, the second from a group cut short by the end
C10_Witness ==
    /\ op = "read"
    /\ ret = Ok(2)
    /\ pre.pos > 0
    /\ (PreLen - pre.pos) % BitsPerByte # 0
    /\ out[1] \notin {0, 255}
    /\ out[2] # 0
    /\ out # arg.data

\* the view bits after the writes of sources, each write at the place the
\* one before it ended
RECURSIVE Replay(_, _, _)
Replay(bits, at, sources) ==
    IF sources = <<>>
    THEN bits
    ELSE LET n == Min(Len(bits) - at, Len(sources[1]))
         IN  Replay([i \in 1 .. Len(bits) |->
                        IF i > at /\ i <= at + n THEN sources[1][i - at] ELSE bits[i]],
                    at + n, Tail(sources))

\* C3: the halves of split_mut() at position p are [0, p) and [p, L) and
\* never overlap; a write through the first changes only bits of [0, p), a
\* write through the second only bits of [p, L); and the storage after any
\* interleaving of the writes is the first half with its writes followed by
\* the second half with its own, whatever the order they were made in.
C3_SplitMutDisjoint ==
    halves.live =>
        LET p == halves.at
            L == Len(halves.inner0)
        IN  /\ op = "split_mut" => /\ halves.left = View(0, p)
                                   /\ halves.right = View(p, L - p)
            /\ halves.left.start + halves.left.len <= p
            /\ halves.right.start >= p
            /\ halves.right.start + halves.right.len <= L
            /\ Len(inner) = L
            /\ op = "left.write_bits" => \A i \in p + 1 .. L : inner[i] = pre.inner[i]
            /\ op = "right.write_bits" => \A i \in 1 .. p : inner[i] = pre.inner[i]
            /\ inner = Replay(Slice(halves.inner0, 0, p), 0, halves.wl)
                           \o Replay(Slice(halves.inner0, p, L), 0, halves.wr)

\* both halves written, the second before the first, each changing a bit
C3_Witness ==
    /\ halves.live
    /\ op = "left.write_bits"
    /\ halves.wr # <<>>
    /\ halves.at > 0
    /\ halves.at < Len(inner)
    /\ inner # pre.inner
    /\ pre.inner # halves.inner0
    /\ \E i \in halves.at + 1 .. Len(inner) : inner[i] # halves.inner0[i]

\* C4: set_position(o); write_bits(s); set_position(o); read_bits(dest) with
\* o in 0..7, len(dest) = len(s) and o + len(s) within the storage: both
\* calls return len(s) and dest is s, whatever the storage held.
C4_RoundTrip ==
    (op = "read_bits" /\ Len(hist) = 3) =>
        LET o == hist[1].arg.n
            s == hist[2].arg.data
        IN  (o + Len(s) <= Len(inner)) =>
                /\ hist[2].ret = Ok(Len(s))
                /\ ret = Ok(Len(s))
                /\ out = s

\* a sequence written at the last offset of the first byte and read back,
\* which is neither what the storage held there nor what dest held
C4_Witness ==
    /\ op = "read_bits"
    /\ Len(hist) = 3
    /\ hist[1].arg.n = BitsPerByte - 1
    /\ Len(hist[2].arg.data) = MaxDest
    /\ ret = Ok(MaxDest)
    /\ out = hist[2].arg.data
    /\ out # arg.data
    /\ \E i \in 1 .. MaxDest : out[i] = 1
    /\ \E i \in 1 .. MaxDest : out[i] = 0

\* C5: the byte seek returns the new position in bytes: seek(Current(0))
\* after seek(Start(n)) returns n, and seek(End(0)) returns the length in
\* bytes of a storage made of whole bytes.
C5_SeekReturnsBytes ==
    (op = "seek" /\ ret.kind = "Ok") =>
        /\ (/\ arg = SeekFrom("Current", 0)
            /\ hist # <<>>
            /\ hist[1].arg.whence = "Start"
            /\ hist[1].ret.kind = "Ok") => ret.val = hist[1].arg.n
        /\ (arg = SeekFrom("End", 0) /\ PreLen % BitsPerByte = 0) =>
               ret.val = PreLen \div BitsPerByte

\* C6: read, read_bits, write and write_bits at a position at or past the
\* end of the storage return Ok(0), and never fail or panic.
C6_ExhaustionIsNotAnError ==
    (op \in {"read", "read_bits", "write", "write_bits"} /\ pre.pos >= PreLen) =>
        ret = Ok(0)

\* the window of a buffer without its first n bits
RECURSIVE Drop(_, _)
Drop(bits, n) == IF n = 0 THEN bits ELSE Drop(Tail(bits), n - 1)

\* C7: advance(count) with count <= remaining() makes remaining() count
\* smaller and chunk() the chunk() of before without its first count bits;
\* remaining() is the number of bits of chunk().
C7_Advance ==
    /\ bitbuf.kind # "none" =>
           /\ chunk(bitbuf).some
           /\ remaining(bitbuf) = Len(chunk(bitbuf).val)
    /\ (op = "advance" /\ arg.n <= remaining(pre)) =>
           /\ ret.kind = "Ok"
           /\ remaining(bitbuf) = remaining(pre) - arg.n
           /\ chunk(bitbuf).val = Drop(chunk(pre).val, arg.n)

\* a second advance, by some but not all of the bits left, of a buffer that
\* holds both bit values
C7_Witness ==
    /\ op = "advance"
    /\ ret.kind = "Ok"
    /\ pre.bit_start > 0
    /\ arg.n > 0
    /\ remaining(bitbuf) > 1
    /\ \E i, j \in 1 .. Len(bitbuf.inner) : bitbuf.inner[i] # bitbuf.inner[j]

\* C8: advance(count) with count > remaining() panics, and the window of
\* the buffer is what it was before the call.
C8_AdvancePastEnd ==
    (op = "advance" /\ arg.n > remaining(pre)) =>
        /\ ret.kind = "Panic"
        /\ bitbuf = pre

\* an advance past the end of a buffer advanced before, with bits left
C8_Witness ==
    /\ op = "advance"
    /\ ret.kind = "Panic"
    /\ pre.bit_start > 0
    /\ pre.bit_len > 0
    /\ arg.n = pre.bit_len + 1

\* C11 as claimed: after every successful seek the position is a multiple
\* of 8.
C11_SeekAligned ==
    (op = "seek" /\ ret.kind = "Ok") => pos % BitsPerByte = 0

\* the base of a seek: 0, the position before the call, or the bit length
SeekBase ==
    IF arg.whence = "Start" THEN 0
    ELSE IF arg.whence = "Current" THEN pre.pos
    ELSE PreLen

\* C11, amended: a successful seek leaves the position a multiple of 8 away
\* from its base, so seek(Start(n)) leaves it a multiple of 8, and
\* seek(Current(n)) and seek(End(n)) do when the position before the call,
\* resp. the bit length of the storage, is one.
C11_SeekAlignedToBase ==
    (op = "seek" /\ ret.kind = "Ok") =>
        /\ (pos - SeekBase) % BitsPerByte = 0
        /\ arg.whence = "Start" => pos % BitsPerByte = 0
        /\ SeekBase % BitsPerByte = 0 => pos % BitsPerByte = 0
        /\ ret.val = pos

\* a seek back by one byte from a position within a byte, as in test_seek
C11_Witness ==
    /\ op = "seek"
    /\ ret.kind = "Ok"
    /\ arg.whence = "Current"
    /\ arg.n = 0 - 1
    /\ pre.pos % BitsPerByte # 0
    /\ pos = pre.pos - BitsPerByte
    /\ pos % BitsPerByte # 0

\* C12: bit_seek(Start(n)) succeeds for every n, sets the position to n and
\* returns n, whatever the length of the storage; bit_seek(Current(n)) and
\* bit_seek(End(n)) whose base + n is within the unsigned range set the
\* position to base + n, beyond the end of the storage included, and return
\* it; bit_seek never changes the storage.
C12_BitSeek ==
    op = "bit_seek" =>
        /\ inner = pre.inner
        /\ arg.whence = "Start" =>
               /\ ret = Ok(arg.n)
               /\ pos = arg.n
        /\ (arg.whence # "Start" /\ SeekBase + arg.n \in U64) =>
               /\ ret = Ok(SeekBase + arg.n)
               /\ pos = SeekBase + arg.n

\* a bit seek from the end to a position beyond the end of the storage
C12_Witness ==
    /\ op = "bit_seek"
    /\ arg.whence = "End"
    /\ arg.n > 0
    /\ PreLen > 0
    /\ ret.kind = "Ok"
    /\ pos = PreLen + arg.n
    /\ pos > Len(inner)

\* C13: write_bits(source) at a position p <= L, L the bit length of the
\* storage, copies k = min(len(source), L - p) bits: the storage bits
\* [p, p + k) become source[0 .. k) in order, every other storage bit keeps
\* its value, the length of the storage does not change, the call returns k
\* and the position becomes p + k.
C13_WriteBits ==
    (op = "write_bits" /\ pre.pos <= PreLen) =>
        LET p == pre.pos
            k == Min(Len(arg.data), PreLen - p)
        IN  /\ ret = Ok(k)
            /\ pos = p + k
            /\ Len(inner) = PreLen
            /\ \A i \in 1 .. PreLen :
                   inner[i] = IF i > p /\ i <= p + k
                              THEN arg.data[i - p]
                              ELSE pre.inner[i]

\* a write of two bits, one of them changing the storage, with one bit left
\* in the storage, after bits that stay
C13_Witness ==
    /\ op = "write_bits"
    /\ pre.pos > 0
    /\ pre.pos = PreLen - 1
    /\ Len(arg.data) > 1
    /\ ret = Ok(1)
    /\ inner # pre.inner
    /\ pos = PreLen

\* C14: in every state reached by advance calls on a Bits or a BitsMut,
\* accepted or aborted, the window is inside the storage:
\* start <= start + length <= bit length of the storage, and chunk() is a
\* slice of the storage of remaining() bits.
C14_Window ==
    /\ bitbuf.bit_start <= bitbuf.bit_start + bitbuf.bit_len
    /\ bitbuf.bit_start + bitbuf.bit_len <= Len(bitbuf.inner)
    /\ chunk(bitbuf).some
    /\ Len(chunk(bitbuf).val) = remaining(bitbuf)

\* a buffer advanced, in more than one call, to the very end of its storage
C14_Witness ==
    /\ op = "advance"
    /\ ret.kind = "Ok"
    /\ arg.n > 0
    /\ pre.bit_start > 0
    /\ bitbuf.bit_start = Len(bitbuf.inner)
    /\ bitbuf.bit_len = 0

\* C15: for every origin and every offset n, seek either sets the position
\* to the exact value base + 8 * n and returns it, or fails with InvalidInput
\* and leaves the position as it was; a product 8 * n that does not fit
\* neither wraps to another position nor panics.
C15_SeekExactOrInvalid ==
    op = "seek" =>
        \/ /\ ret.kind = "Ok"
           /\ pos = SeekBase + BitsPerByte * arg.n
        \/ /\ ret = Err("InvalidInput")
           /\ pos = pre.pos

\* C16: from a new cursor, after any sequence of read, read_bits, write and
\* write_bits calls the position is at most the bit length of the storage,
\* and no call of the sequence has panicked on its split of the storage.
C16_NeverPastEnd ==
    /\ pos <= Len(inner)
    /\ ret.kind # "Panic"

=============================================================================
